---- MODULE Spec2Model ----
(***************************************************************************)
(* A model of the gravsim physics worker (src/gravsim_calc.js) and of the  *)
(* host's side of its message channel (src/gravsim.js).                    *)
(*                                                                         *)
(* Numbers.  A JavaScript Number is modelled as an integer: the model's    *)
(* grid of representable values.  Sums and products of grid values are     *)
(* exact; a quotient and a square root are rounded to the nearest grid     *)
(* value (RDiv, Sqrt), as IEEE-754 rounds them to the nearest double.      *)
(* Lengths, times and masses are counted in model units: G and C keep the  *)
(* names of the source's constants and carry their values in those units,  *)
(* and the factor YEARS_PER_SECOND / TIME_SCALE of update() is the unit in *)
(* which dt is counted (one clock millisecond is one unit of dt at         *)
(* timeScale 1).                                                           *)
(*                                                                         *)
(* Scheduling.  The worker is one event loop: the timer callback update()  *)
(* and the message handler onmessage() each run to completion.  A message  *)
(* posted by the host is enqueued in the worker's task queue (inbox) at    *)
(* any moment, also while update() runs; pc is update()'s position.        *)
(***************************************************************************)
EXTENDS Integers, Sequences, FiniteSets, TLC

VARIABLES
    now,        \* the wall clock read by Date.now()
    lastTime,   \* GravSimCalc.lastTime
    objects,    \* GravSimCalc.objects
    timeScale,  \* GravSimCalc.timeScale
    dt,         \* update(): the local dt of the running (or last) tick
    pc,         \* update(): position of the timer callback
    inbox,      \* messages posted by the host, not yet handled by onmessage
    reports,    \* messages posted by the worker, in order
    marks,      \* the assignments collided = true made by the last collision pass
    tickStart,  \* history: this.objects as update() found it when the tick began
    idCounter,  \* GravSimObject._idCounter of the host
    sent,       \* number of commands the host has posted on the user's request
    hostObjects,\* Universe.objects of the host (tracked by the host's own actions)
    centerId,   \* the id of Universe.centerObject
    delivered   \* number of reports the host's handleMessage has handled

hostVars == <<hostObjects, centerId, delivered>>

vars == <<now, lastTime, objects, timeScale, dt, pc, inbox, reports, marks, tickStart,
          idCounter, sent, hostObjects, centerId, delivered>>

----------------------------------------------------------------------------
(* Bounds of the model *)

MaxNow == 2
StartTime == 1
MaxTicks == 2
MaxCmds == 2
MaxInbox == 2
MaxRaw == 1
MaxActions == 2
MaxHostInbox == MaxActions + 3

(* Program constants, in model units *)

G == 4
C == 3
EXPAND_DIV_NUM == 20
\* the host keeps at most HISTORY_LENGTH positions of an object; the model
\* carries a length that the reports of a bounded run can fill
HISTORY_LENGTH == 2

----------------------------------------------------------------------------
(* Arithmetic on the grid *)

Abs(n) == IF n < 0 THEN -n ELSE n

Max(a, b) == IF a > b THEN a ELSE b

\* a / b rounded to the nearest grid value (halves away from zero)
RDiv(a, b) ==
    LET q == (2 * Abs(a) + Abs(b)) \div (2 * Abs(b))
    IN  IF (a < 0) = (b < 0) THEN q ELSE -q

RECURSIVE SqrtUp(_, _)
SqrtUp(n, r) == IF n <= r * r + r THEN r ELSE SqrtUp(n, r + 1)

\* Math.sqrt(n) rounded to the nearest grid value
Sqrt(n) == SqrtUp(n, 0)

\* a field that is missing from a message (undefined) or not a number (NaN):
\* a value apart from the grid, on which no arithmetic is done
Undefined == -1000

\* a || d : d replaces a falsy value (0, NaN, undefined)
OrDefault(a, d) == IF a = 0 \/ a = Undefined THEN d ELSE a

----------------------------------------------------------------------------
(* Commands the host posts *)

AddXs == {0, 1, 4}
Velocities == {<<0, 0>>, <<2, 4>>}
Masses == {1, 2}
CmdIds == {0, 1}
TimeScales == {Undefined, 0, 2}

Cmd(c, id, x, y, v, mass, radius, ts) ==
    [cmd |-> c, id |-> id, x |-> x, y |-> y, vx |-> v[1], vy |-> v[2],
     ax |-> 0, ay |-> 0, mass |-> mass, radius |-> radius, timeScale |-> ts]

AddCmds(id) ==
    { Cmd("add", id, x, 0, v, m, 1, 0) : x \in AddXs, v \in Velocities, m \in Masses }

RemoveCmds == { Cmd("remove", id, 0, 0, <<0, 0>>, 0, 0, 0) : id \in CmdIds }

UpdateCmds ==
    { Cmd("update", id, x, 0, v, m, 1, 0) :
        id \in CmdIds, x \in {0}, v \in Velocities, m \in {0, 2} }

SetTimeScaleCmds ==
    { Cmd("setTimeScale", 0, 0, 0, <<0, 0>>, 0, 0, ts) : ts \in TimeScales }

(* Messages as the worker may receive them: any field may be missing *)

RawPositions == {<<Undefined, 0>>, <<1, Undefined>>, <<1, 3>>}
RawMotions == {<<Undefined, Undefined, Undefined>>, <<2, 4, 1>>}
RawMasses == {Undefined, 0, 2}
RawRadii == {Undefined, 2}
RawTimeScales == {Undefined, -1, 0, 2}

\* m = <<vx, vy, a>>, with ax = ay = a
RawCmd(c, id, p, m, mass, radius) ==
    [Cmd(c, id, p[1], p[2], <<m[1], m[2]>>, mass, radius, 0)
        EXCEPT !.ax = m[3], !.ay = m[3]]

RawAddCmds(id) ==
    { RawCmd("add", id, p, m, mass, radius) :
        p \in RawPositions, m \in RawMotions, mass \in RawMasses, radius \in RawRadii }

RawUpdateCmds ==
    { RawCmd("update", id, p, m, mass, 2) :
        id \in CmdIds, p \in RawPositions, m \in RawMotions, mass \in RawMasses }

RawSetTimeScaleCmds ==
    { Cmd("setTimeScale", 0, 0, 0, <<0, 0>>, 0, 0, ts) : ts \in RawTimeScales }

\* a command name the switch does not know
UnknownCmds == { Cmd("pause", 0, 0, 0, <<0, 0>>, 0, 0, 0) }

\* Universe.updateObject(obj) for a body as the engine holds it
ownUpdate(obj) ==
    [Cmd("update", obj.id, obj.x, obj.y, <<obj.vx, obj.vy>>, obj.mass, obj.radius, 0)
        EXCEPT !.ax = obj.ax, !.ay = obj.ay]

----------------------------------------------------------------------------
(* GravSimCalc.onmessage *)

\* a variant of newObj: mass and radius are stored as the message gives them
newObjNoDefaults(data) ==
    [id |-> data.id, x |-> data.x, y |-> data.y,
     vx |-> OrDefault(data.vx, 0), vy |-> OrDefault(data.vy, 0),
     ax |-> OrDefault(data.ax, 0), ay |-> OrDefault(data.ay, 0),
     mass |-> data.mass, radius |-> data.radius,
     collided |-> FALSE]

newObj(data) ==
    [id |-> data.id, x |-> data.x, y |-> data.y,
     vx |-> OrDefault(data.vx, 0), vy |-> OrDefault(data.vy, 0),
     ax |-> OrDefault(data.ax, 0), ay |-> OrDefault(data.ay, 0),
     mass |-> OrDefault(data.mass, 1), radius |-> OrDefault(data.radius, 1),
     collided |-> FALSE]

\* this.objects.find(obj => obj.id === id): the index of the first match, 0 if none
find(objs, id) ==
    IF \E i \in 1..Len(objs) : objs[i].id = id
    THEN CHOOSE i \in 1..Len(objs) :
            objs[i].id = id /\ \A k \in 1..(i - 1) : objs[k].id # id
    ELSE 0

\* a variant of updateObj: the radius the host sends is stored too
updateObjRadius(obj, data) ==
    [obj EXCEPT !.x = data.x, !.y = data.y,
                !.vx = OrDefault(data.vx, 0), !.vy = OrDefault(data.vy, 0),
                !.ax = OrDefault(data.ax, 0), !.ay = OrDefault(data.ay, 0),
                !.mass = OrDefault(data.mass, obj.mass),
                !.radius = OrDefault(data.radius, obj.radius)]

\* a variant of updateObj: mass is stored as the message gives it
updateObjMassRaw(obj, data) ==
    [obj EXCEPT !.x = data.x, !.y = data.y,
                !.vx = OrDefault(data.vx, 0), !.vy = OrDefault(data.vy, 0),
                !.ax = OrDefault(data.ax, 0), !.ay = OrDefault(data.ay, 0),
                !.mass = data.mass]

\* a variant of updateObj: the acceleration is cleared, as add leaves it
updateObjZeroAccel(obj, data) ==
    [obj EXCEPT !.x = data.x, !.y = data.y,
                !.vx = OrDefault(data.vx, 0), !.vy = OrDefault(data.vy, 0),
                !.ax = 0, !.ay = 0,
                !.mass = OrDefault(data.mass, obj.mass)]

updateObj(obj, data) ==
    [obj EXCEPT !.x = data.x, !.y = data.y,
                !.vx = OrDefault(data.vx, 0), !.vy = OrDefault(data.vy, 0),
                !.ax = OrDefault(data.ax, 0), !.ay = OrDefault(data.ay, 0),
                !.mass = OrDefault(data.mass, obj.mass)]

\* a variant of onmessageObjects: remove keeps the bodies it should delete
onmessageObjectsKeepMatch(objs, data) ==
    CASE data.cmd = "add" -> Append(objs, newObj(data))
      [] data.cmd = "remove" -> SelectSeq(objs, LAMBDA o : o.id = data.id)
      [] data.cmd = "update" ->
            LET i == find(objs, data.id)
            IN  IF i = 0 THEN objs ELSE [objs EXCEPT ![i] = updateObj(objs[i], data)]
      [] OTHER -> objs

onmessageObjects(objs, data) ==
    CASE data.cmd = "add" -> Append(objs, newObj(data))
      [] data.cmd = "remove" -> SelectSeq(objs, LAMBDA o : o.id # data.id)
      [] data.cmd = "update" ->
            LET i == find(objs, data.id)
            IN  IF i = 0 THEN objs ELSE [objs EXCEPT ![i] = updateObj(objs[i], data)]
      [] OTHER -> objs

\* a variant of onmessageTimeScale: any value is stored
onmessageTimeScaleAny(ts, data) ==
    IF data.cmd = "setTimeScale" THEN data.timeScale ELSE ts

\* typeof data.timeScale === 'number' && data.timeScale > 0
onmessageTimeScale(ts, data) ==
    IF data.cmd = "setTimeScale" /\ data.timeScale # Undefined /\ data.timeScale > 0
    THEN data.timeScale
    ELSE ts

----------------------------------------------------------------------------
(* GravSimCalc.applyGravity, updateGravity *)

\* a variant of gravityDistSq: the squared distance is not clamped
gravityDistSqRaw(obj1, obj2) ==
    LET dx == obj2.x - obj1.x
        dy == obj2.y - obj1.y
    IN  dx * dx + dy * dy

\* const distSq = Math.max(dx*dx + dy*dy, radiusSum*radiusSum)
gravityDistSq(obj1, obj2) ==
    LET dx == obj2.x - obj1.x
        dy == obj2.y - obj1.y
        radiusSum == obj1.radius + obj2.radius
    IN  Max(dx * dx + dy * dy, radiusSum * radiusSum)

applyGravity(obj1, obj2) ==
    LET dx == obj2.x - obj1.x
        dy == obj2.y - obj1.y
        distSq == gravityDistSq(obj1, obj2)
        dist == Sqrt(distSq)
        force == RDiv(G * obj1.mass * obj2.mass, distSq)
        accel == RDiv(force, obj1.mass)
    IN  [obj1 EXCEPT !.ax = @ + RDiv(accel * dx, dist),
                     !.ay = @ + RDiv(accel * dy, dist)]

RECURSIVE gravityLoop(_, _, _)
gravityLoop(obj, objs, j) ==
    IF j > Len(objs) THEN obj
    ELSE gravityLoop(IF obj.id # objs[j].id THEN applyGravity(obj, objs[j]) ELSE obj,
                     objs, j + 1)

\* a variant of updateGravity: ax, ay are not reset before the loop
updateGravityNoReset(obj, objs) == gravityLoop(obj, objs, 1)

updateGravity(obj, objs) == gravityLoop([obj EXCEPT !.ax = 0, !.ay = 0], objs, 1)

----------------------------------------------------------------------------
(* GravSimCalc.update: the integration loop *)

\* Math.sqrt(obj.vx*obj.vx + obj.vy*obj.vy)
getV(obj) == Sqrt(obj.vx * obj.vx + obj.vy * obj.vy)

\* if (v > C) { obj.vx = C*(obj.vx/v); obj.vy = C*(obj.vy/v); }
speedCap(obj) ==
    LET v == getV(obj)
    IN  IF v > C
        THEN [obj EXCEPT !.vx = RDiv(C * obj.vx, v), !.vy = RDiv(C * obj.vy, v)]
        ELSE obj

\* a variant of moveOne: the position advances by the velocity of the step's start
moveOneEuler(objs, i, d) ==
    LET o1 == updateGravity(objs[i], objs)
        half_vx == o1.vx + RDiv(o1.ax * d, 2)
        half_vy == o1.vy + RDiv(o1.ay * d, 2)
        o2 == [o1 EXCEPT !.x = @ + o1.vx * d, !.y = @ + o1.vy * d]
        o3 == updateGravity(o2, [objs EXCEPT ![i] = o2])
        o4 == [o3 EXCEPT !.vx = half_vx + RDiv(o3.ax * d, 2),
                         !.vy = half_vy + RDiv(o3.ay * d, 2)]
    IN  [objs EXCEPT ![i] = speedCap(o4)]

\* the body of the loop for this.objects[i]; the array is updated in place
moveOne(objs, i, d) ==
    LET o1 == updateGravity(objs[i], objs)
        half_vx == o1.vx + RDiv(o1.ax * d, 2)
        half_vy == o1.vy + RDiv(o1.ay * d, 2)
        o2 == [o1 EXCEPT !.x = @ + half_vx * d, !.y = @ + half_vy * d]
        o3 == updateGravity(o2, [objs EXCEPT ![i] = o2])
        o4 == [o3 EXCEPT !.vx = half_vx + RDiv(o3.ax * d, 2),
                         !.vy = half_vy + RDiv(o3.ay * d, 2)]
    IN  [objs EXCEPT ![i] = speedCap(o4)]

RECURSIVE moveLoop(_, _, _)
moveLoop(objs, i, d) ==
    IF i > Len(objs) THEN objs ELSE moveLoop(moveOne(objs, i, d), i + 1, d)

moveObject(objs, d) == moveLoop(objs, 1, d)

\* (now - this.lastTime) * YEARS_PER_SECOND / TIME_SCALE * this.timeScale
deltaTime(n, last, ts) == (n - last) * ts

----------------------------------------------------------------------------
(* GravSimCalc.isColliding, collisionCheck *)

isColliding(obj1, obj2) ==
    LET dx == obj2.x - obj1.x
        dy == obj2.y - obj1.y
        distSq == dx * dx + dy * dy
        radiusSum == obj1.radius + obj2.radius
    IN  distSq < radiusSum * radiusSum

\* a variant of markedOf with the mass comparison reversed
markedOfHeavier(objs, i, j) == IF objs[i].mass > objs[j].mass THEN i ELSE j

\* the index whose collided flag the pair (i, j), i < j, sets
markedOf(objs, i, j) == IF objs[i].mass < objs[j].mass THEN i ELSE j

\* a variant of checkPair in which equal masses mark both bodies
checkPairBoth(st, i, j) ==
    IF st.objs[i].id # st.objs[j].id /\ isColliding(st.objs[i], st.objs[j])
    THEN IF st.objs[i].mass = st.objs[j].mass
         THEN [objs |-> [st.objs EXCEPT ![i].collided = TRUE, ![j].collided = TRUE],
               marks |-> st.marks \cup {<<i, j, i>>, <<i, j, j>>}]
         ELSE LET k == markedOf(st.objs, i, j)
              IN  [objs |-> [st.objs EXCEPT ![k].collided = TRUE],
                   marks |-> st.marks \cup {<<i, j, k>>}]
    ELSE st

\* a variant of checkPair in which equal masses mark neither body
checkPairUnequal(st, i, j) ==
    IF /\ st.objs[i].id # st.objs[j].id /\ isColliding(st.objs[i], st.objs[j])
       /\ st.objs[i].mass # st.objs[j].mass
    THEN LET k == markedOf(st.objs, i, j)
         IN  [objs |-> [st.objs EXCEPT ![k].collided = TRUE],
              marks |-> st.marks \cup {<<i, j, k>>}]
    ELSE st

\* one iteration of the inner loop: st = [objs, marks]
checkPair(st, i, j) ==
    IF st.objs[i].id # st.objs[j].id /\ isColliding(st.objs[i], st.objs[j])
    THEN LET k == markedOf(st.objs, i, j)
         IN  [objs |-> [st.objs EXCEPT ![k].collided = TRUE],
              marks |-> st.marks \cup {<<i, j, k>>}]
    ELSE st

RECURSIVE collisionLoop(_, _, _)
collisionLoop(st, i, j) ==
    IF i > Len(st.objs) THEN st
    ELSE IF j > Len(st.objs) THEN collisionLoop(st, i + 1, i + 2)
    ELSE collisionLoop(checkPair(st, i, j), i, j + 1)

\* a variant of collisionCheck: the inner loop starts at the first body, so
\* that every pair is checked in both orders
RECURSIVE collisionLoopOrdered(_, _, _)
collisionLoopOrdered(st, i, j) ==
    IF i > Len(st.objs) THEN st
    ELSE IF j > Len(st.objs) THEN collisionLoopOrdered(st, i + 1, 1)
    ELSE collisionLoopOrdered(checkPair(st, i, j), i, j + 1)

collisionCheckOrdered(objs) == collisionLoopOrdered([objs |-> objs, marks |-> {}], 1, 1)

collisionCheck(objs) == collisionLoop([objs |-> objs, marks |-> {}], 1, 2)

----------------------------------------------------------------------------
(* GravSimCalc.convertToMessage and the purge *)

\* a variant of convertToMessage that never reports the collided flag
convertToMessageNoFlag(objs) ==
    [i \in 1..Len(objs) |->
        [id |-> objs[i].id,
         x |-> OrDefault(objs[i].x, 0), y |-> OrDefault(objs[i].y, 0),
         vx |-> OrDefault(objs[i].vx, 0), vy |-> OrDefault(objs[i].vy, 0),
         ax |-> OrDefault(objs[i].ax, 0), ay |-> OrDefault(objs[i].ay, 0),
         collided |-> FALSE]]

convertToMessage(objs) ==
    [i \in 1..Len(objs) |->
        [id |-> objs[i].id,
         x |-> OrDefault(objs[i].x, 0), y |-> OrDefault(objs[i].y, 0),
         vx |-> OrDefault(objs[i].vx, 0), vy |-> OrDefault(objs[i].vy, 0),
         ax |-> OrDefault(objs[i].ax, 0), ay |-> OrDefault(objs[i].ay, 0),
         collided |-> objs[i].collided]]

\* a variant of the purge that keeps every body
purgeNothing(objs) == objs

\* this.objects.filter(obj => !obj.collided)
purge(objs) == SelectSeq(objs, LAMBDA o : ~o.collided)

----------------------------------------------------------------------------
(* The system *)

Init ==
    /\ hostObjects = <<>>
    /\ centerId = 0
    /\ delivered = 0
    /\ now = StartTime
    /\ lastTime = 0
    /\ objects = <<>>
    /\ timeScale = 1
    /\ dt = 0
    /\ pc = "idle"
    /\ inbox = <<>>
    /\ reports = <<>>
    /\ marks = {}
    /\ tickStart = <<>>
    /\ idCounter = 0
    /\ sent = 0

\* Date.now() is the wall clock: it may stand still between two ticks and
\* may be set back
ClockStep ==
    /\ \E n \in StartTime..MaxNow : n # now /\ now' = n
    /\ UNCHANGED <<lastTime, objects, timeScale, dt, pc, inbox, reports, marks, tickStart, idCounter, sent>>
    /\ UNCHANGED hostVars

CanPost == sent < MaxCmds /\ Len(inbox) < MaxInbox

\* a variant of nextId: the counter is not advanced
nextIdSame == idCounter

\* GravSimObject._idCounter++
nextId == idCounter + 1

\* Universe.addObject: a new GravSimObject takes the next id
PostAdd ==
    /\ CanPost
    /\ \E data \in AddCmds(idCounter) : inbox' = Append(inbox, data)
    /\ idCounter' = nextId
    /\ sent' = sent + 1
    /\ UNCHANGED <<now, lastTime, objects, timeScale, dt, pc, reports, marks, tickStart>>
    /\ UNCHANGED hostVars

\* Universe.removeObject, updateObject, CalcWorkerManager.setTimeScale
PostCommand ==
    /\ CanPost
    /\ \E data \in RemoveCmds \cup UpdateCmds \cup SetTimeScaleCmds :
            inbox' = Append(inbox, data)
    /\ sent' = sent + 1
    /\ UNCHANGED <<now, lastTime, objects, timeScale, dt, pc, reports, marks, tickStart, idCounter>>
    /\ UNCHANGED hostVars

\* a variant of CanDispatch: a task may start while update() is running
CanDispatchMidTick == TRUE

\* the event loop starts a task only when no task is running
CanDispatch == pc = "idle"

OnMessage ==
    /\ CanDispatch
    /\ inbox # <<>>
    /\ objects' = onmessageObjects(objects, Head(inbox))
    /\ timeScale' = onmessageTimeScale(timeScale, Head(inbox))
    /\ inbox' = Tail(inbox)
    /\ UNCHANGED <<now, lastTime, dt, pc, reports, marks, tickStart, idCounter, sent>>
    /\ UNCHANGED hostVars

\* update(), lines 139-162: read the clock and integrate every body
UpdateMove ==
    /\ CanDispatch
    /\ Len(reports) < MaxTicks
    /\ LET d == deltaTime(now, lastTime, timeScale)
       IN  /\ dt' = d
           /\ objects' = moveObject(objects, d)
    /\ lastTime' = now
    /\ tickStart' = objects
    /\ pc' = "moved"
    /\ UNCHANGED <<now, timeScale, inbox, reports, marks, idCounter, sent>>
    /\ UNCHANGED hostVars

\* update(), line 164
UpdateCollisionCheck ==
    /\ pc = "moved"
    /\ LET st == collisionCheck(objects)
       IN  objects' = st.objs /\ marks' = st.marks
    /\ pc' = "checked"
    /\ UNCHANGED <<now, lastTime, timeScale, dt, inbox, reports, tickStart, idCounter, sent>>
    /\ UNCHANGED hostVars

\* update(), lines 166-170
UpdatePostMessage ==
    /\ pc = "checked"
    /\ reports' = Append(reports, [cmd |-> "update", deltaTime |-> dt,
                                   objects |-> convertToMessage(objects)])
    /\ pc' = "posted"
    /\ UNCHANGED <<now, lastTime, objects, timeScale, dt, inbox, marks, tickStart, idCounter, sent>>
    /\ UNCHANGED hostVars

\* update(), line 172
UpdatePurge ==
    /\ pc = "posted"
    /\ objects' = purge(objects)
    /\ pc' = "idle"
    /\ UNCHANGED <<now, lastTime, timeScale, dt, inbox, reports, marks, tickStart, idCounter, sent>>
    /\ UNCHANGED hostVars

Next ==
    \/ ClockStep
    \/ PostAdd
    \/ PostCommand
    \/ OnMessage
    \/ UpdateMove
    \/ UpdateCollisionCheck
    \/ UpdatePostMessage
    \/ UpdatePurge

Spec == Init /\ [][Next]_vars

TypeOK ==
    /\ now \in StartTime..MaxNow
    /\ pc \in {"idle", "moved", "checked", "posted"}
    /\ Len(inbox) <= MaxInbox
    /\ Len(reports) <= MaxTicks

----------------------------------------------------------------------------
(* The engine whose collision test samples the step: GravSimObject of the
   second worker source, and GravSimCalc.collisionCheck(dt) that calls it *)

getXt(obj, t) == obj.x + obj.vx * t + RDiv(obj.ax * t * t, 2)
getYt(obj, t) == obj.y + obj.vy * t + RDiv(obj.ay * t * t, 2)

getVXt(obj, t) == obj.vx + obj.ax * t
getVYt(obj, t) == obj.vy + obj.ay * t

\* the statement "true;" under the first test has no effect: the test of the
\* current distance decides nothing
isCollidingDt(obj1, obj2, d) ==
    LET dx == obj2.x - obj1.x
        dy == obj2.y - obj1.y
        distSq == dx * dx + dy * dy
        radiusSum == obj1.radius + obj2.radius
        max_v1 == Max(Abs(getVXt(obj1, d)), Abs(getVYt(obj1, d)))
        max_v2 == Max(Abs(getVXt(obj2, d)), Abs(getVYt(obj2, d)))
        expandRadiusSum == radiusSum + (max_v1 + max_v2) * d
    IN  /\ distSq < expandRadiusSum * expandRadiusSum
        /\ \E i \in 1..(EXPAND_DIV_NUM - 1) :
            LET dts == RDiv(d, EXPAND_DIV_NUM) * i
                dxs == getXt(obj2, dts) - getXt(obj1, dts)
                dys == getYt(obj2, dts) - getYt(obj1, dts)
            IN  dxs * dxs + dys * dys < radiusSum * radiusSum

checkPairDt(st, i, j, d) ==
    IF st.objs[i].id # st.objs[j].id /\ isCollidingDt(st.objs[i], st.objs[j], d)
    THEN LET k == markedOf(st.objs, i, j)
         IN  [objs |-> [st.objs EXCEPT ![k].collided = TRUE],
              marks |-> st.marks \cup {<<i, j, k>>}]
    ELSE st

RECURSIVE collisionLoopDt(_, _, _, _)
collisionLoopDt(st, i, j, d) ==
    IF i > Len(st.objs) THEN st
    ELSE IF j > Len(st.objs) THEN collisionLoopDt(st, i + 1, i + 2, d)
    ELSE collisionLoopDt(checkPairDt(st, i, j, d), i, j + 1, d)

collisionCheckDt(objs, d) == collisionLoopDt([objs |-> objs, marks |-> {}], 1, 2, d)

\* Two bodies as moveObject(dt) may leave them, about to be tested for the
\* step dt: a heavy body at rest in the origin and a light one heading for it.
\* The steps are multiples of EXPAND_DIV_NUM, so that every sampled time is a
\* grid value.
CollideXs == 1..10
CollideYs == {0, 2}
CollideVxs == {-3, -2, -1, 0, 3}
CollideDts == {EXPAND_DIV_NUM, 2 * EXPAND_DIV_NUM}

Body(id, x, y, vx, vy, mass) ==
    [id |-> id, x |-> x, y |-> y, vx |-> vx, vy |-> vy, ax |-> 0, ay |-> 0,
     mass |-> mass, radius |-> 1, collided |-> FALSE]

CollideInit ==
    /\ hostObjects = <<>>
    /\ centerId = 0
    /\ delivered = 0
    /\ now = StartTime
    /\ lastTime = StartTime
    /\ \E x \in CollideXs, y \in CollideYs, vx \in CollideVxs :
            objects = <<Body(0, 0, 0, 0, 0, 2), Body(1, x, y, vx, 0, 1)>>
    /\ timeScale = 1
    /\ dt \in CollideDts
    /\ pc = "moved"
    /\ inbox = <<>>
    /\ reports = <<>>
    /\ marks = {}
    /\ tickStart = <<>>
    /\ idCounter = 2
    /\ sent = 2

\* update() of the sampling engine: this.collisionCheck(dt)
UpdateCollisionCheckDt ==
    /\ pc = "moved"
    /\ LET st == collisionCheckDt(objects, dt)
       IN  objects' = st.objs /\ marks' = st.marks
    /\ pc' = "checked"
    /\ UNCHANGED <<now, lastTime, timeScale, dt, inbox, reports, tickStart, idCounter, sent>>
    /\ UNCHANGED hostVars

CollideNext ==
    \/ UpdateCollisionCheckDt
    \/ UpdatePostMessage
    \/ UpdatePurge

CollideSpec == CollideInit /\ [][CollideNext]_vars

----------------------------------------------------------------------------
(* The message handler on its own: the worker between two ticks, receiving
   messages whose fields may be missing *)

\* the body lists one or two add commands of the host leave
FreshLists ==
    {<<>>}
    \cup { <<newObj(a)>> : a \in AddCmds(0) }
    \cup { <<newObj(a), newObj(b)>> :
            a \in { c \in AddCmds(0) : c.x = 0 }, b \in { c \in AddCmds(1) : c.x # 0 } }

\* the state after l was added and ticked times update() ran (0 or 1)
AfterTicks(l, ticked) ==
    LET d == deltaTime(StartTime, 0, 1)
        st == collisionCheck(moveObject(l, d))
    IN  IF ticked = 0
        THEN [lastTime |-> 0, objects |-> l, dt |-> 0, reports |-> <<>>,
              marks |-> {}, tickStart |-> <<>>]
        ELSE [lastTime |-> StartTime, objects |-> purge(st.objs), dt |-> d,
              reports |-> << [cmd |-> "update", deltaTime |-> d,
                              objects |-> convertToMessage(st.objs)] >>,
              marks |-> st.marks, tickStart |-> l]

\* sent counts the messages posted after the state CmdInit draws
CmdInit ==
    /\ hostObjects = <<>>
    /\ centerId = 0
    /\ delivered = 0
    /\ now = StartTime
    /\ timeScale = 1
    /\ pc = "idle"
    /\ inbox = <<>>
    /\ sent = 0
    /\ \E l \in FreshLists, ticked \in {0, 1} :
        LET st == AfterTicks(l, ticked)
        IN  /\ lastTime = st.lastTime
            /\ objects = st.objects
            /\ dt = st.dt
            /\ reports = st.reports
            /\ marks = st.marks
            /\ tickStart = st.tickStart
            /\ idCounter = Len(l)

CanPostRaw == sent < MaxRaw /\ Len(inbox) < MaxInbox

\* an add message with the next id of the host
PostRawAdd ==
    /\ CanPostRaw
    /\ \E data \in RawAddCmds(idCounter) : inbox' = Append(inbox, data)
    /\ idCounter' = nextId
    /\ sent' = sent + 1
    /\ UNCHANGED <<now, lastTime, objects, timeScale, dt, pc, reports, marks, tickStart>>
    /\ UNCHANGED hostVars

PostRaw ==
    /\ CanPostRaw
    /\ \E data \in RemoveCmds \cup RawUpdateCmds \cup RawSetTimeScaleCmds \cup UnknownCmds :
            inbox' = Append(inbox, data)
    /\ sent' = sent + 1
    /\ UNCHANGED <<now, lastTime, objects, timeScale, dt, pc, reports, marks, tickStart, idCounter>>
    /\ UNCHANGED hostVars

\* Universe.updateObject for a body whose fields the host holds as the engine does
PostOwnUpdate ==
    /\ CanPostRaw
    /\ \E i \in 1..Len(objects) : inbox' = Append(inbox, ownUpdate(objects[i]))
    /\ sent' = sent + 1
    /\ UNCHANGED <<now, lastTime, objects, timeScale, dt, pc, reports, marks, tickStart, idCounter>>
    /\ UNCHANGED hostVars

CmdNext ==
    \/ PostRawAdd
    \/ PostRaw
    \/ PostOwnUpdate
    \/ OnMessage

CmdSpec == CmdInit /\ [][CmdNext]_vars

----------------------------------------------------------------------------
(* update() on its own: the worker after the host's add commands were
   handled, running ticks with no further command *)

\* the body lists that zero, one or three add commands of the host leave
TickLists ==
    {<<>>}
    \cup { <<newObj(a)>> : a \in AddCmds(0) }
    \cup { <<newObj(a), newObj(b), newObj(c)>> :
            a \in AddCmds(0), b \in AddCmds(1), c \in AddCmds(2) }

TickInit ==
    /\ hostObjects = <<>>
    /\ centerId = 0
    /\ delivered = 0
    /\ now = StartTime
    /\ lastTime = 0
    /\ objects \in TickLists
    /\ timeScale = 1
    /\ dt = 0
    /\ pc = "idle"
    /\ inbox = <<>>
    /\ reports = <<>>
    /\ marks = {}
    /\ tickStart = <<>>
    /\ idCounter = Len(objects)
    /\ sent = Len(objects)

TickNext ==
    \/ ClockStep
    \/ UpdateMove
    \/ UpdateCollisionCheck
    \/ UpdatePostMessage
    \/ UpdatePurge

TickSpec == TickInit /\ [][TickNext]_vars

----------------------------------------------------------------------------
(* The host: Universe, GravSimObject and CalcWorkerManager of src/gravsim.js.
   An object of the host is a record; history is the length of its history
   array, and seen is the number of the report its kinematics were last
   copied from (0: none; a history variable).  The conversions between
   pixels and metres are the units in which the host counts. *)

\* new GravSimObject(name, x, y, vx, vy, mass, ...): the id is the counter's
GravSimObject(name, id, x, y, v, mass) ==
    [id |-> id, name |-> name, x |-> x, y |-> y, vx |-> v[1], vy |-> v[2],
     ax |-> 0, ay |-> 0, mass |-> mass, radius |-> 1, state |-> "ACTIVE",
     history |-> 0, seen |-> 0]

\* ObjectPlacer.placeObject('Sun', centerX, centerY, 0, 0): the canvas centre
\* is the origin
NewSun(id) == GravSimObject("Sun", id, 0, 0, <<0, 0>>, 2)

\* the objects the user places
PlacedObjects(id) == { GravSimObject("Earth", id, x, 0, <<0, 0>>, 1) : x \in {1, 3} }

\* the values of ControlPanel.getTimeScale()
HostTimeScales == {1}

\* a message of the host, with the number of the report it was built from
HostCmd(data, seen) == [seen |-> seen] @@ data

\* the messages of Universe.addObject, removeObject, updateObject
addMessage(h) ==
    HostCmd(Cmd("add", h.id, h.x, h.y, <<h.vx, h.vy>>, h.mass, h.radius, 0), h.seen)
removeMessage(h) == HostCmd(Cmd("remove", h.id, 0, 0, <<0, 0>>, 0, 0, 0), h.seen)
updateMessage(h) ==
    HostCmd([Cmd("update", h.id, h.x, h.y, <<h.vx, h.vy>>, h.mass, h.radius, 0)
                EXCEPT !.ax = h.ax, !.ay = h.ay], h.seen)
setTimeScaleMessage(ts) == HostCmd(Cmd("setTimeScale", 0, 0, 0, <<0, 0>>, 0, 0, ts), 0)

\* GravSimObject.addHistory: shift() when full, then push()
addHistory(h) ==
    IF h.state # "ACTIVE" \/ h.name = "Sun" THEN h
    ELSE [h EXCEPT !.history = IF @ >= HISTORY_LENGTH THEN (@ - 1) + 1 ELSE @ + 1]

\* a variant of updateHistory: the history of a removed object is left as it is
updateHistoryKeep(h) == h

\* GravSimObject.updateHistory
updateHistory(h) ==
    IF h.state = "ACTIVE" \/ h.name = "Sun" THEN h
    ELSE [h EXCEPT !.history = IF @ > 0 THEN @ - 1 ELSE @]

finished(h) == h.state = "REMOVED" /\ h.history = 0

\* GravSimObject.setCollided
setCollided(h) == IF h.name = "Sun" THEN h ELSE [h EXCEPT !.state = "REMOVED"]

\* a variant of hostTarget: the report's values overwrite the first object
hostTargetFirst(hobjs, id) == IF hobjs = <<>> THEN 0 ELSE 1

\* this.objects.find(target => target.id === obj.id): the index, 0 if none
hostTarget(hobjs, id) == find(hobjs, id)

\* the body of updateObjectParams' forEach for one entry of report number n;
\* a report carries no mass and no radius: obj.mass / 1e3 is NaN, obj.radius
\* is undefined
updateOneParams(hobjs, obj, n) ==
    LET k == hostTarget(hobjs, obj.id)
    IN  IF k = 0 THEN hobjs
        ELSE LET t1 == [hobjs[k] EXCEPT !.x = obj.x, !.y = obj.y,
                                        !.vx = obj.vx, !.vy = obj.vy,
                                        !.ax = obj.ax, !.ay = obj.ay,
                                        !.mass = Undefined, !.radius = Undefined,
                                        !.seen = n]
                 t2 == addHistory(t1)
             IN  [hobjs EXCEPT ![k] = IF obj.collided THEN setCollided(t2) ELSE t2]

RECURSIVE updateParamsLoop(_, _, _, _)
updateParamsLoop(hobjs, robjs, i, n) ==
    IF i > Len(robjs) THEN hobjs
    ELSE updateParamsLoop(updateOneParams(hobjs, robjs[i], n), robjs, i + 1, n)

\* Universe.updateObjectParams(data) for report number n
updateObjectParams(hobjs, data, n) == updateParamsLoop(hobjs, data.objects, 1, n)

\* GravSimObject.transformRelativeCordinate(basis)
transformRelativeCordinate(h, basis) ==
    IF h.state # "ACTIVE" \/ basis.state # "ACTIVE" THEN h
    ELSE [h EXCEPT !.x = @ + basis.vx, !.y = @ + basis.vy]

\* the forEach of transformRelativeToCenterObject: every object is moved
\* against the centre object as the loop has left it (the centre object itself
\* is moved when its turn comes, so the later objects read the moved one)
transformLoop(hobjs, c) ==
    LET moved == transformRelativeCordinate(hobjs[c], hobjs[c])
    IN  [i \in 1..Len(hobjs) |->
            transformRelativeCordinate(hobjs[i], IF i <= c THEN hobjs[c] ELSE moved)]

\* Universe.transformRelativeToCenterObject: updateObject posts every moved
\* object, then the centre object is put back and posted once more
transformRelativeToCenterObject(hobjs, cid) ==
    LET c == find(hobjs, cid)
        objs == transformLoop(hobjs, c)
        sun == [objs[c] EXCEPT !.ax = 0, !.ay = 0, !.x = 0, !.y = 0, !.vx = 0, !.vy = 0]
    IN  IF c = 0 THEN [objs |-> hobjs, msgs |-> <<>>]
        ELSE [objs |-> [objs EXCEPT ![c] = sun],
              msgs |-> Append([i \in 1..Len(objs) |-> updateMessage(objs[i])],
                              updateMessage(sun))]

\* Universe.removeFinished
removeFinished(hobjs) == SelectSeq(hobjs, LAMBDA h : ~finished(h))

\* the state after new Universe(canvas): the constructor calls reset()
HostInit ==
    /\ now = StartTime
    /\ lastTime = 0
    /\ objects = <<>>
    /\ timeScale = 1
    /\ dt = 0
    /\ pc = "idle"
    /\ inbox = <<addMessage(NewSun(0))>>
    /\ reports = <<>>
    /\ marks = {}
    /\ tickStart = <<>>
    /\ idCounter = 1
    /\ sent = 0
    /\ hostObjects = <<NewSun(0)>>
    /\ centerId = 0
    /\ delivered = 0

\* ObjectPlacer.goLaunch: the user places an object
HostPlace ==
    /\ sent < MaxActions
    /\ Len(inbox) < MaxHostInbox
    /\ \E h \in PlacedObjects(idCounter) :
        /\ hostObjects' = Append(hostObjects, h)
        /\ inbox' = Append(inbox, addMessage(h))
    /\ idCounter' = nextId
    /\ sent' = sent + 1
    /\ UNCHANGED <<now, lastTime, objects, timeScale, dt, pc, reports, marks, tickStart,
                   centerId, delivered>>

\* Universe.reset: destroy() posts a remove for every object, then a new Sun
\* is placed and becomes the centre object
HostReset ==
    /\ sent < MaxActions
    /\ Len(inbox) + Len(hostObjects) + 1 <= MaxHostInbox
    /\ inbox' = inbox \o [k \in 1..Len(hostObjects) |-> removeMessage(setCollided(hostObjects[k]))]
                      \o <<addMessage(NewSun(idCounter))>>
    /\ hostObjects' = <<NewSun(idCounter)>>
    /\ centerId' = idCounter
    /\ idCounter' = nextId
    /\ sent' = sent + 1
    /\ UNCHANGED <<now, lastTime, objects, timeScale, dt, pc, reports, marks, tickStart,
                   delivered>>

\* CalcWorkerManager.handleMessage: the next report of the worker
HostReceive ==
    /\ delivered < Len(reports)
    /\ hostObjects' = updateObjectParams(hostObjects, reports[delivered + 1], delivered + 1)
    /\ delivered' = delivered + 1
    /\ UNCHANGED <<now, lastTime, objects, timeScale, dt, pc, inbox, reports, marks, tickStart,
                   idCounter, sent, centerId>>

\* animate(): Universe.update(dt)
HostFrame ==
    /\ Len(inbox) + Len(hostObjects) + 2 <= MaxHostInbox
    /\ \E ts \in HostTimeScales :
        \E aged \in {[k \in 1..Len(hostObjects) |-> updateHistory(hostObjects[k])]} :
        \E kept \in {removeFinished(aged)} :
        \E st \in {transformRelativeToCenterObject(kept, centerId)} :
            /\ hostObjects' = st.objs
            /\ inbox' = (inbox \o <<setTimeScaleMessage(ts)>>) \o st.msgs
    /\ UNCHANGED <<now, lastTime, objects, timeScale, dt, pc, reports, marks, tickStart,
                   idCounter, sent, centerId, delivered>>

HostNext ==
    \/ ClockStep
    \/ HostPlace
    \/ HostReset
    \/ HostReceive
    \/ HostFrame
    \/ OnMessage
    \/ UpdateMove
    \/ UpdateCollisionCheck
    \/ UpdatePostMessage
    \/ UpdatePurge

HostSpec == HostInit /\ [][HostNext]_vars

\* the lists of the host after the user has placed one or two objects
PlacedLists ==
    { <<NewSun(0), a>> : a \in PlacedObjects(1) }
    \cup { <<NewSun(0), a, b>> : a \in PlacedObjects(1), b \in PlacedObjects(2) }

\* the state after the user has placed the objects of the session: every add
\* is posted and none is handled yet
PlacedInit ==
    /\ now = StartTime
    /\ lastTime = 0
    /\ objects = <<>>
    /\ timeScale = 1
    /\ dt = 0
    /\ pc = "idle"
    /\ reports = <<>>
    /\ marks = {}
    /\ tickStart = <<>>
    /\ centerId = 0
    /\ delivered = 0
    /\ \E l \in PlacedLists :
        /\ hostObjects = l
        /\ inbox = [k \in 1..Len(l) |-> addMessage(l[k])]
        /\ idCounter = Len(l)
        /\ sent = Len(l) - 1

\* the session from then on: frames, reports and the worker, no user action
PlacedNext ==
    \/ ClockStep
    \/ HostReceive
    \/ HostFrame
    \/ OnMessage
    \/ UpdateMove
    \/ UpdateCollisionCheck
    \/ UpdatePostMessage
    \/ UpdatePurge

\* requestAnimationFrame(animate) schedules the next frame in every frame, the
\* worker's event loop runs every task that is ready, and update() runs to
\* its end once it has started
PlacedSpec ==
    /\ PlacedInit
    /\ [][PlacedNext]_vars
    /\ WF_vars(HostFrame)
    /\ WF_vars(OnMessage)
    /\ WF_vars(UpdateCollisionCheck)
    /\ WF_vars(UpdatePostMessage)
    /\ WF_vars(UpdatePurge)

----------------------------------------------------------------------------
(* Helpers of the properties *)

Pairs(objs) == { <<i, j>> \in (1..Len(objs)) \X (1..Len(objs)) : i < j }

\* the pairs the collision pass detects as colliding
Detected(objs) ==
    { p \in Pairs(objs) :
        objs[p[1]].id # objs[p[2]].id /\ isColliding(objs[p[1]], objs[p[2]]) }

Lighter(objs, p) == IF objs[p[1]].mass < objs[p[2]].mass THEN p[1] ELSE p[2]
Heavier(objs, p) == IF objs[p[1]].mass < objs[p[2]].mass THEN p[2] ELSE p[1]

ReportIds(r) == { r.objects[i].id : i \in 1..Len(r.objects) }

\* the ids a report carries with collided = true
ReportCollided(r) == { r.objects[i].id : i \in { n \in 1..Len(r.objects) : r.objects[n].collided } }

LastReport == reports[Len(reports)]

----------------------------------------------------------------------------
(* C1: after the collision pass, every detected pair of unequal masses has
   its lower-mass body marked collided, and the pair has made exactly that
   assignment: it has not marked its higher-mass body. *)
C1_LighterMarked ==
    pc = "checked" =>
        \A p \in Detected(objects) :
            objects[p[1]].mass # objects[p[2]].mass =>
                /\ objects[Lighter(objects, p)].collided
                /\ <<p[1], p[2], Lighter(objects, p)>> \in marks
                /\ <<p[1], p[2], Heavier(objects, p)>> \notin marks

C1_Witness ==
    /\ pc = "checked"
    /\ \E p \in Detected(objects) :
        /\ objects[p[1]].mass < objects[p[2]].mass
        /\ objects[p[1]].collided
        /\ ~objects[p[2]].collided

(* C2: a body reported with collided = true is in no later report, so it is
   reported as collided once and every other entry for it has collided =
   false; and the report of a tick carries collided = true for every body
   the tick marked. *)
C2_CollidedReportedOnce ==
    /\ \A k \in 1..Len(reports) : \A id \in ReportCollided(reports[k]) :
            \A n \in (k + 1)..Len(reports) : id \notin ReportIds(reports[n])
    /\ pc = "posted" =>
            \A i \in 1..Len(objects) :
                objects[i].collided => objects[i].id \in ReportCollided(LastReport)

C2_Witness ==
    /\ Len(reports) = 2
    /\ reports[2].objects # <<>>
    /\ \E id \in ReportCollided(reports[1]) : id \notin ReportIds(reports[2])

(* C3: between ticks, that is whenever update() is not running, no body of
   the engine state has collided = true. *)
C3_NoCollidedBetweenTicks ==
    pc = "idle" => \A i \in 1..Len(objects) : ~objects[i].collided

C3_Witness ==
    /\ pc = "idle"
    /\ Len(reports) > 0
    /\ ReportCollided(LastReport) # {}
    /\ objects # <<>>

(* C4: when a tick ends, every body of the engine state has a speed
   sqrt(vx^2 + vy^2) of at most C. *)
C4_SpeedAtMostC ==
    [][ (pc = "posted" /\ pc' = "idle") =>
            \A i \in 1..Len(objects') : getV(objects'[i]) <= C ]_vars

(* C5: the first-created body, the host's Sun, is never marked collided. *)
C5_SunNeverCollided ==
    \A i \in 1..Len(objects) : objects[i].id = 0 => ~objects[i].collided

(* C6: a detected pair of equal masses makes exactly one assignment
   collided = true, and the body it marks is fixed by the state: the one
   that comes later in the list. *)
C6_EqualMassMarksOne ==
    pc = "checked" =>
        \A p \in Detected(objects) :
            objects[p[1]].mass = objects[p[2]].mass =>
                /\ <<p[1], p[2], p[2]>> \in marks
                /\ <<p[1], p[2], p[1]>> \notin marks
                /\ objects[p[2]].collided

C6_Witness ==
    /\ pc = "checked"
    /\ \E p \in Detected(objects) :
        /\ objects[p[1]].mass = objects[p[2]].mass
        /\ objects[p[2]].collided
        /\ ~objects[p[1]].collided

(* C7: two bodies of unequal mass that overlap when a tick
   begins have the lower-mass id in that tick's report with collided =
   true. *)
C7_OverlapAtStartReported ==
    pc = "posted" =>
        \A p \in Detected(tickStart) :
            tickStart[p[1]].mass # tickStart[p[2]].mass =>
                tickStart[Lighter(tickStart, p)].id \in ReportCollided(LastReport)

\* the squared distance of two bodies at time t of the step, each moving as
\* getXt and getYt extrapolate it
DistSqAt(obj1, obj2, t) ==
    LET dxs == getXt(obj2, t) - getXt(obj1, t)
        dys == getYt(obj2, t) - getYt(obj1, t)
    IN  dxs * dxs + dys * dys

\* apart when the step begins, within the sum of the radii at a time inside it
Tunnels(obj1, obj2, d) ==
    LET radiusSum == obj1.radius + obj2.radius
    IN  /\ DistSqAt(obj1, obj2, 0) > radiusSum * radiusSum
        /\ \E t \in 1..(d - 1) : DistSqAt(obj1, obj2, t) < radiusSum * radiusSum

(* C8: two bodies that are apart when the step begins and pass within the
   sum of their radii during the step are detected as colliding in that
   step. *)
C8_TunnelingDetected ==
    pc = "checked" =>
        (Tunnels(objects[1], objects[2], dt) => marks # {})

(* C9: while update() runs, no command is taken from the queue and nothing
   but update()'s own steps changes the body list, timeScale or dt; a
   command is taken only between ticks, and it is the oldest one. *)
C9_NoCommandMidTick ==
    [][ /\ pc # "idle" =>
            /\ timeScale' = timeScale
            /\ dt' = dt
            /\ lastTime' = lastTime
            /\ Len(inbox') >= Len(inbox)
            /\ SubSeq(inbox', 1, Len(inbox)) = inbox
            /\ \/ objects' = objects
               \/ pc = "moved" /\ pc' = "checked" /\ objects' = collisionCheck(objects).objs
               \/ pc = "posted" /\ pc' = "idle" /\ objects' = purge(objects)
        /\ Len(inbox') < Len(inbox) =>
            /\ pc = "idle" /\ pc' = "idle"
            /\ inbox' = Tail(inbox)
            /\ objects' = onmessageObjects(objects, Head(inbox))
            /\ timeScale' = onmessageTimeScale(timeScale, Head(inbox)) ]_vars

C9_Witness ==
    /\ pc = "moved"
    /\ objects # <<>>
    /\ inbox # <<>>

(* C10: the dt of every tick, reported as deltaTime, is strictly positive. *)
C10_DtPositive ==
    \A k \in 1..Len(reports) : reports[k].deltaTime > 0

----------------------------------------------------------------------------
(* Helpers of the properties of onmessage *)

\* this step is onmessage() handling a command named c
Handles(c) == inbox # <<>> /\ inbox' = Tail(inbox) /\ Head(inbox).cmd = c

\* nothing of the engine's state changes in this step
EngineUnchanged == UNCHANGED <<objects, timeScale, lastTime, dt, pc>>

HasId(objs, id) == \E k \in 1..Len(objs) : objs[k].id = id

\* a payload the contract calls invalid
InvalidPayload(data) ==
    \/ data.cmd \notin {"add", "remove", "update", "setTimeScale"}
    \/ data.cmd \in {"add", "update"} /\ (data.x = Undefined \/ data.y = Undefined)
    \/ data.cmd = "setTimeScale" /\ data.timeScale # Undefined /\ data.timeScale <= 0

(* C11: a command with an invalid payload (an unknown command name, an add
   or update without a numeric x or y, a setTimeScale with a non-positive
   value) is dropped: the body list and timeScale after it equal those
   before it. *)
C11_InvalidDropped ==
    [][ (inbox # <<>> /\ inbox' = Tail(inbox) /\ InvalidPayload(Head(inbox)))
            => (objects' = objects /\ timeScale' = timeScale) ]_vars

\* the bodies of objs whose id is not id, in their order
RECURSIVE Without(_, _)
Without(objs, id) ==
    IF Len(objs) = 0 THEN <<>>
    ELSE IF Head(objs).id = id THEN Without(Tail(objs), id)
    ELSE <<Head(objs)>> \o Without(Tail(objs), id)

(* C12: a remove command with id i deletes every body whose id is i and
   leaves every other body (fields and relative order) and the timeScale
   unchanged; when no body has id i the whole engine state is unchanged. *)
C12_RemoveFrame ==
    [][ Handles("remove") =>
            /\ \A k \in 1..Len(objects') : objects'[k].id # Head(inbox).id
            /\ objects' = Without(objects, Head(inbox).id)
            /\ timeScale' = timeScale
            /\ ~HasId(objects, Head(inbox).id) => EngineUnchanged ]_vars

C12_Witness ==
    /\ pc = "idle"
    /\ inbox # <<>>
    /\ Head(inbox).cmd = "remove"
    /\ Len(objects) = 2
    /\ Head(inbox).id = objects[1].id
    /\ objects[2].ax # 0

\* the value a field takes when the message may omit it
Given(a) == IF a = Undefined THEN 0 ELSE a

(* C13: an update command for an existing id overwrites that body's x, y
   with the given values, vx, vy, ax, ay with the given values (0 when
   omitted) and mass with the given value when a mass (a positive number) is
   provided, and leaves the body's id, radius and collided flag, every other
   body and the timeScale unchanged; an update for an unknown id leaves the
   whole engine state unchanged. *)
C13_UpdateFrame ==
    [][ Handles("update") =>
            LET data == Head(inbox)
            IN  /\ timeScale' = timeScale
                /\ Len(objects') = Len(objects)
                /\ ~HasId(objects, data.id) => EngineUnchanged
                /\ \A k \in 1..Len(objects) :
                        IF objects[k].id = data.id
                        THEN /\ objects'[k].x = data.x /\ objects'[k].y = data.y
                             /\ objects'[k].vx = Given(data.vx)
                             /\ objects'[k].vy = Given(data.vy)
                             /\ objects'[k].ax = Given(data.ax)
                             /\ objects'[k].ay = Given(data.ay)
                             /\ data.mass > 0 => objects'[k].mass = data.mass
                             /\ data.mass = Undefined => objects'[k].mass = objects[k].mass
                             /\ objects'[k].id = objects[k].id
                             /\ objects'[k].radius = objects[k].radius
                             /\ objects'[k].collided = objects[k].collided
                        ELSE objects'[k] = objects[k] ]_vars

C13_Witness ==
    /\ pc = "idle"
    /\ inbox # <<>>
    /\ Head(inbox).cmd = "update"
    /\ Len(objects) = 2
    /\ Head(inbox).id = objects[2].id
    /\ Head(inbox).vx = Undefined
    /\ Head(inbox).mass > 0
    /\ Head(inbox).mass # objects[2].mass
    /\ Head(inbox).radius # objects[2].radius

(* C14: a setTimeScale command whose value is a number greater than 0 sets
   timeScale to that value, and timeScale keeps it until the next such
   command; a value that is <= 0, NaN or not a number leaves timeScale at its
   prior value; in both cases the body list is unchanged; timeScale is > 0 in
   every reachable state. *)
C14_TimeScalePositive ==
    /\ [](timeScale > 0)
    /\ [][ IF Handles("setTimeScale")
           THEN /\ objects' = objects
                /\ timeScale' =
                        IF Head(inbox).timeScale # Undefined /\ Head(inbox).timeScale > 0
                        THEN Head(inbox).timeScale
                        ELSE timeScale
           ELSE timeScale' = timeScale ]_vars

C14_Witness ==
    /\ pc = "idle"
    /\ inbox # <<>>
    /\ Head(inbox).cmd = "setTimeScale"
    /\ Head(inbox).timeScale = Undefined
    /\ timeScale > 1
    /\ reports # <<>>

(* C15: an add command appends exactly one body with the given id, x and y;
   omitted vx, vy, ax, ay are stored as 0 and omitted mass and radius as 1;
   the bodies already in the state are unchanged and the new body is not
   marked collided. *)
C15_AddFrame ==
    [][ Handles("add") =>
            LET data == Head(inbox)
                n == Len(objects)
            IN  /\ Len(objects') = n + 1
                /\ SubSeq(objects', 1, n) = objects
                /\ objects'[n + 1].id = data.id
                /\ objects'[n + 1].x = data.x /\ objects'[n + 1].y = data.y
                /\ objects'[n + 1].vx = Given(data.vx)
                /\ objects'[n + 1].vy = Given(data.vy)
                /\ objects'[n + 1].ax = Given(data.ax)
                /\ objects'[n + 1].ay = Given(data.ay)
                /\ data.mass = Undefined => objects'[n + 1].mass = 1
                /\ data.mass > 0 => objects'[n + 1].mass = data.mass
                /\ data.radius = Undefined => objects'[n + 1].radius = 1
                /\ data.radius > 0 => objects'[n + 1].radius = data.radius
                /\ ~objects'[n + 1].collided
                /\ timeScale' = timeScale ]_vars

C15_Witness ==
    /\ pc = "idle"
    /\ inbox # <<>>
    /\ Head(inbox).cmd = "add"
    /\ Head(inbox).vx = Undefined
    /\ Head(inbox).mass = Undefined
    /\ Head(inbox).radius = Undefined
    /\ Len(objects) = 2

\* the ids of the add commands in the queue, in order
AddIds == [k \in 1..Len(SelectSeq(inbox, LAMBDA m : m.cmd = "add")) |->
                SelectSeq(inbox, LAMBDA m : m.cmd = "add")[k].id]

(* C16: body ids are unique: no two bodies of the engine share an id; the
   ids the host assigns are strictly increasing, below the host's counter,
   and none is an id a body had before (one in the engine or in a report). *)
C16_IdsUnique ==
    /\ \A p \in Pairs(objects) : objects[p[1]].id # objects[p[2]].id
    /\ \A k \in 1..Len(objects) : objects[k].id < idCounter
    /\ \A k \in 1..Len(AddIds) :
            /\ AddIds[k] < idCounter
            /\ \A j \in 1..(k - 1) : AddIds[j] < AddIds[k]
            /\ \A j \in 1..Len(objects) : objects[j].id < AddIds[k]
            /\ \A j \in 1..Len(reports) : AddIds[k] \notin ReportIds(reports[j])

C16_Witness ==
    /\ Len(objects) = 1
    /\ Len(AddIds) = 1
    /\ reports # <<>>
    /\ ReportIds(LastReport) # {}

(* C17: every body has mass > 0 in every reachable state, and no tick
   changes a body's mass: while update() runs, the bodies are those the tick
   began with, each with the mass it had. *)
C17_MassPositive ==
    /\ \A k \in 1..Len(objects) : objects[k].mass > 0
    /\ pc # "idle" =>
            /\ Len(objects) = Len(tickStart)
            /\ \A k \in 1..Len(objects) :
                    /\ objects[k].id = tickStart[k].id
                    /\ objects[k].mass = tickStart[k].mass

C17_Witness ==
    /\ pc = "moved"
    /\ objects # <<>>
    /\ inbox # <<>>
    /\ Head(inbox).cmd = "update"
    /\ Head(inbox).id = objects[1].id
    /\ Head(inbox).mass = 0

\* data carries the current x, y, vx, vy, ax, ay and mass of the body it names
OwnValues(objs, data) ==
    \E k \in 1..Len(objs) :
        /\ objs[k].id = data.id
        /\ data.x = objs[k].x /\ data.y = objs[k].y
        /\ data.vx = objs[k].vx /\ data.vy = objs[k].vy
        /\ data.ax = objs[k].ax /\ data.ay = objs[k].ay
        /\ data.mass = objs[k].mass

(* C19: an update command, applied between two ticks, that carries a body's
   own current x, y, vx, vy, ax, ay and mass leaves the engine state as it
   was. *)
C19_OwnUpdateNoop ==
    [][ (Handles("update") /\ OwnValues(objects, Head(inbox))) => EngineUnchanged ]_vars

C19_Witness ==
    /\ pc = "idle"
    /\ reports # <<>>
    /\ inbox # <<>>
    /\ Head(inbox).cmd = "update"
    /\ OwnValues(objects, Head(inbox))
    /\ \E k \in 1..Len(objects) :
            objects[k].id = Head(inbox).id /\ objects[k].ax # 0 /\ objects[k].vx # 0

\* the same bodies in the opposite order
Reverse(objs) == [k \in 1..Len(objs) |-> objs[Len(objs) + 1 - k]]

\* the bodies of a list, whatever their order
BodySet(objs) == { objs[k] : k \in 1..Len(objs) }

(* C20: the result of a tick does not depend on the order of the bodies in
   the list: the tick of the same bodies in the opposite order, with the
   same dt, yields the same collided flag and the same kinematics for every
   id, and so the same surviving ids. *)
C20_OrderIndependent ==
    pc = "checked" =>
        BodySet(collisionCheck(moveObject(Reverse(tickStart), dt)).objs) = BodySet(objects)

----------------------------------------------------------------------------
(* Properties of update() *)

(* C21: within one tick the steps occur in this order: every body is
   integrated; then every unordered pair of bodies is checked once against
   the integrated state; then one report is emitted; then the collided bodies
   are purged.  No body leaves the list before the purge, and a report is
   emitted in every tick and only there, also when the list is empty. *)
C21_TickOrder ==
    [][ /\ pc' # pc =>
            \/ /\ pc = "idle" /\ pc' = "moved"
               /\ objects' = moveObject(objects, dt')
               /\ reports' = reports
            \/ /\ pc = "moved" /\ pc' = "checked"
               /\ Len(objects') = Len(objects)
               /\ { <<m[1], m[2]>> : m \in marks' } = Detected(objects)
               /\ \A k \in 1..Len(objects) :
                     objects'[k] = [objects[k] EXCEPT !.collided = objects'[k].collided]
               /\ reports' = reports
            \/ /\ pc = "checked" /\ pc' = "posted"
               /\ objects' = objects
               /\ Len(reports') = Len(reports) + 1
               /\ SubSeq(reports', 1, Len(reports)) = reports
               /\ Len(reports'[Len(reports')].objects) = Len(objects)
            \/ /\ pc = "posted" /\ pc' = "idle"
               /\ BodySet(objects') = { o \in BodySet(objects) : ~o.collided }
               /\ reports' = reports
        /\ pc' = pc => (objects' = objects /\ reports' = reports) ]_vars

C21_Witness ==
    /\ pc = "posted"
    /\ Len(reports) = 2
    /\ Len(objects) = 3
    /\ Cardinality(marks) >= 2
    /\ \E k \in 1..3 : objects[k].x # tickStart[k].x

\* body i of objs advanced by d as the integrator's formulas say, before the cap
VerletStep(objs, i, d) ==
    LET b == objs[i]
        a0 == updateGravity(b, objs)
        hvx == b.vx + RDiv(a0.ax * d, 2)
        hvy == b.vy + RDiv(a0.ay * d, 2)
        nx == b.x + hvx * d
        ny == b.y + hvy * d
        a1 == updateGravity([b EXCEPT !.x = nx, !.y = ny],
                            [objs EXCEPT ![i] = [b EXCEPT !.x = nx, !.y = ny]])
    IN  [b EXCEPT !.x = nx, !.y = ny,
                  !.vx = hvx + RDiv(a1.ax * d, 2), !.vy = hvy + RDiv(a1.ay * d, 2),
                  !.ax = a1.ax, !.ay = a1.ay]

\* the list in which the bodies 1..n of objs have been advanced, in order
RECURSIVE VerletPrefix(_, _, _)
VerletPrefix(objs, n, d) ==
    IF n = 0 THEN objs
    ELSE LET before == VerletPrefix(objs, n - 1, d)
         IN  [before EXCEPT ![n] = speedCap(VerletStep(before, n, d))]

(* C23: each body integrated in a tick with step dt has the new position
   x + (v + a0*dt/2)*dt, a0 being the acceleration accumulated at the
   pre-step position, and, before the speed cap, the new velocity
   (v + a0*dt/2) + a1*dt/2, a1 being the acceleration accumulated at the new
   position; a body alone in the list moves by v*dt and keeps its velocity
   (up to the speed cap). *)
C23_VerletStep ==
    pc = "moved" =>
        /\ objects = VerletPrefix(tickStart, Len(tickStart), dt)
        /\ Len(tickStart) = 1 =>
                /\ objects[1].x = tickStart[1].x + tickStart[1].vx * dt
                /\ objects[1].y = tickStart[1].y + tickStart[1].vy * dt
                /\ getV(tickStart[1]) <= C =>
                        /\ objects[1].vx = tickStart[1].vx
                        /\ objects[1].vy = tickStart[1].vy

C23_Witness ==
    /\ pc = "moved"
    /\ Len(objects) = 3
    /\ dt > 1
    /\ \E k \in 1..3 : objects[k].ax # 0 /\ objects[k].vx # tickStart[k].vx

(* C24: the squared distance by which the gravity accumulation divides is at
   least (radius1 + radius2)^2, and so strictly positive, for every pair of
   bodies in every reachable state, also for two bodies at the same
   position. *)
C24_DivisorPositive ==
    \A i, j \in 1..Len(objects) :
        i # j =>
            /\ gravityDistSq(objects[i], objects[j]) >=
                    (objects[i].radius + objects[j].radius) * (objects[i].radius + objects[j].radius)
            /\ gravityDistSq(objects[i], objects[j]) > 0
            /\ Sqrt(gravityDistSq(objects[i], objects[j])) > 0

C24_Witness ==
    /\ pc = "moved"
    /\ Len(objects) = 3
    /\ tickStart[1].x = tickStart[2].x /\ tickStart[1].y = tickStart[2].y
    /\ objects[1].x = objects[3].x /\ objects[1].y = objects[3].y

\* the fields of a body that the gravity accumulation may not change
Kept(o) == <<o.id, o.x, o.y, o.vx, o.vy, o.mass, o.radius, o.collided>>

(* C25: accumulating gravity for a body first resets that body's ax, ay to 0
   and then changes only its ax and ay: the result does not depend on the ax,
   ay the body had, its x, y, vx, vy, mass and radius are unchanged, and the
   body contributes no force to itself. *)
C25_GravityFrame ==
    \A i \in 1..Len(objects) :
        LET o == objects[i]
            r == updateGravity(o, objects)
        IN  /\ Kept(r) = Kept(o)
            /\ r = updateGravity([o EXCEPT !.ax = @ + 1, !.ay = @ - 1], objects)
            /\ r = updateGravity(o, SelectSeq(objects, LAMBDA b : b.id # o.id))
            /\ updateGravity(o, <<o>>).ax = 0
            /\ updateGravity(o, <<o>>).ay = 0

C25_Witness ==
    /\ pc = "moved"
    /\ Len(objects) = 3
    /\ \A i \in 1..3 : objects[i].ax # 0
    /\ \E i \in 1..3 : updateGravity(objects[i], objects).ax # objects[i].ax

(* C27: after the purge at the end of a tick, no two bodies that the tick's
   collision pass detected as colliding with each other both remain in the
   list, also when three bodies collide with one another. *)
C27_NoCollidingPairSurvives ==
    (pc = "idle" /\ tickStart # <<>>) =>
        LET moved == moveObject(tickStart, dt)
        IN  \A p \in Detected(moved) :
                ~(HasId(objects, moved[p[1]].id) /\ HasId(objects, moved[p[2]].id))

C27_Witness ==
    /\ pc = "idle"
    /\ Len(tickStart) = 3
    /\ Cardinality(Detected(moveObject(tickStart, dt))) = 3
    /\ tickStart[1].mass = tickStart[2].mass
    /\ Len(objects) = 1

(* C22: the pair collision test is true whenever the current squared
   distance of the two bodies is below the square of the sum of their radii,
   whatever their velocities, accelerations and dt. *)
C22_OverlapImpliesCollision ==
    pc = "checked" =>
        (DistSqAt(objects[1], objects[2], 0) <
            (objects[1].radius + objects[2].radius) * (objects[1].radius + objects[2].radius)
         => marks # {})

(* C28: the dt of the first tick after the engine is constructed is the
   time elapsed since the construction, scaled by timeScale. *)
C28_FirstDtSinceConstruction ==
    (pc = "moved" /\ reports = <<>>) => dt = (lastTime - StartTime) * timeScale

----------------------------------------------------------------------------
(* Properties of the host *)

(* C26: whenever the engine applies an update command for a body, the
   kinematics in the command were derived from the engine's most recent
   report: no tick has occurred between the report the host used to build
   the command and the moment the engine applies it. *)
C26_UpdateFromLatestReport ==
    [][ (Handles("update") /\ HasId(objects, Head(inbox).id))
            => Head(inbox).seen = Len(reports) ]_vars

\* the object of the host with this id
HostObj(hobjs, id) == hobjs[find(hobjs, id)]

\* the host's list holds a REMOVED object (a REMOVED object stays REMOVED until
\* it leaves the list, so that each one has left once none is there)
AnyRemoved == \E k \in 1..Len(hostObjects) : hostObjects[k].state = "REMOVED"

\* this step is a frame of the host: only a frame posts a setTimeScale
IsFrame == Len(inbox') > Len(inbox) /\ inbox'[Len(inbox) + 1].cmd = "setTimeScale"

\* this step is handleMessage for the next report
IsReceive == delivered' = delivered + 1

(* C29: a non-Sun object of the host for which a report with collided = true
   is received becomes REMOVED and never returns to ACTIVE; from then on its
   history only shrinks, by one entry per frame, no history is ever longer
   than HISTORY_LENGTH, and after finitely many frames the object is removed
   from the host's list. *)
C29_RemovedFadesOut ==
    /\ [][ \A k \in 1..Len(hostObjects) :
            LET h == hostObjects[k]
            IN  /\ h.history <= HISTORY_LENGTH
                /\ (IsReceive /\ h.name # "Sun" /\
                        h.id \in ReportCollided(reports[delivered + 1]))
                        => HostObj(hostObjects', h.id).state = "REMOVED"
                /\ (h.state = "REMOVED" /\ HasId(hostObjects', h.id))
                        => /\ HostObj(hostObjects', h.id).state = "REMOVED"
                           /\ HostObj(hostObjects', h.id).history <= h.history
                /\ (h.state = "REMOVED" /\ IsFrame)
                        => IF h.history > 1
                           THEN /\ HasId(hostObjects', h.id)
                                /\ HostObj(hostObjects', h.id).history = h.history - 1
                           ELSE ~HasId(hostObjects', h.id) ]_vars
    /\ AnyRemoved ~> ~AnyRemoved

\* a collided report has been received for an object whose history is full,
\* and a frame has shortened that history since
C29_Witness ==
    /\ delivered = 2
    /\ \E k \in 1..Len(hostObjects) :
        /\ hostObjects[k].state = "REMOVED"
        /\ hostObjects[k].history = HISTORY_LENGTH - 1
        /\ hostObjects[k].id \in ReportCollided(reports[2])
        /\ hostObjects[k].id \notin ReportCollided(reports[1])

(* C30: after a reset the host's list holds exactly one object, a new Sun
   that is the centre object; once the host's messages have all been handled
   the engine holds exactly one body, with that Sun's id; a report changes no
   object of the host whose id it does not mention, so a report of ids from
   before the reset changes none. *)
C30_ResetLeavesOneSun ==
    /\ []( (centerId > 0 /\ idCounter = centerId + 1) =>
            /\ Len(hostObjects) = 1
            /\ hostObjects[1].id = centerId /\ hostObjects[1].name = "Sun"
            /\ inbox = <<>> => (Len(objects) = 1 /\ objects[1].id = centerId) )
    /\ [][ /\ centerId' # centerId =>
                /\ Len(hostObjects') = 1
                /\ hostObjects'[1].name = "Sun"
                /\ hostObjects'[1].id = centerId'
                /\ \A k \in 1..Len(hostObjects) : hostObjects[k].id < centerId'
           /\ IsReceive =>
                /\ Len(hostObjects') = Len(hostObjects)
                /\ \A k \in 1..Len(hostObjects) :
                        hostObjects[k].id \notin ReportIds(reports[delivered + 1])
                            => hostObjects'[k] = hostObjects[k] ]_vars

C30_Witness ==
    /\ centerId > 0
    /\ idCounter = centerId + 1
    /\ inbox = <<>>
    /\ Len(objects) = 1
    /\ delivered < Len(reports)
    /\ Cardinality(ReportIds(reports[delivered + 1])) = 2

====
